---------------------------- MODULE Spec2Model ----------------------------
(***************************************************************************)
(* A model of openwrt_tools/imagebuilder.py: the version comparator        *)
(* (compare_version), the idempotent downloader (urldownload) and the      *)
(* sequential pipeline of main().                                          *)
(*                                                                         *)
(* Strings are sequences of one-character strings, so that the regular     *)
(* expression search and Python's lexicographic string comparison are      *)
(* computed character by character, as the interpreter computes them.      *)
(* Python's None for the optional group "candidate" is the empty sequence: *)
(* the group [1-9]\d* never matches the empty string.                      *)
(***************************************************************************)
EXTENDS Integers, Sequences, FiniteSets, TLC

VARIABLES
    ver1, ver2, cmp,        \* compare_version: its arguments and its outcome
    version, entry, pc,     \* main(): --version, how the module is run, position
    ext, parsed,            \* main(): ext, the versions handed to compare_version
    log, failures,          \* main(): the steps started, the steps that failed
    patches_left,           \* main(): .patch files not yet applied
    exit_status,            \* the exit status of the process, -1 while it runs
    file, remote, now,      \* the local archive file, the remote resource, the clock
    buffer_size,            \* the buffer size of the platform's buffered file writer
    calls                   \* the urldownload calls made so far, oldest first

vars == <<ver1, ver2, cmp, version, entry, pc, ext, parsed, log, failures,
          patches_left, exit_status, file, remote, now, buffer_size, calls>>

-----------------------------------------------------------------------------
(* Characters and strings *)

Digit == {"0", "1", "2", "3", "4", "5", "6", "7", "8", "9"}

NonZeroDigit == Digit \ {"0"}

\* ord(c) for the characters the model uses
CharOrd(c) ==
    CASE c = "-" -> 45 [] c = "." -> 46
      [] c = "0" -> 48 [] c = "1" -> 49 [] c = "2" -> 50 [] c = "3" -> 51
      [] c = "4" -> 52 [] c = "5" -> 53 [] c = "6" -> 54 [] c = "7" -> 55
      [] c = "8" -> 56 [] c = "9" -> 57
      [] c = "A" -> 65 [] c = "H" -> 72 [] c = "N" -> 78 [] c = "O" -> 79
      [] c = "P" -> 80 [] c = "S" -> 83 [] c = "T" -> 84 [] c = "X" -> 88
      [] c = "c" -> 99 [] c = "r" -> 114 [] c = "x" -> 120

\* Python's  a > b  on two str values: lexicographic by code point
RECURSIVE StrGt(_, _)
StrGt(a, b) ==
    IF a = <<>> THEN FALSE
    ELSE IF b = <<>> THEN TRUE
    ELSE IF Head(a) = Head(b) THEN StrGt(Tail(a), Tail(b))
    ELSE CharOrd(Head(a)) > CharOrd(Head(b))

-----------------------------------------------------------------------------
(* compare_version: the pattern and re.search *)

\* \d* from position i: the position after the last digit of the run (greedy)
RECURSIVE DigitsEnd(_, _)
DigitsEnd(s, i) ==
    IF i <= Len(s) /\ s[i] \in Digit THEN DigitsEnd(s, i + 1) ELSE i

NoMatch == [ok |-> FALSE, year |-> <<>>, month |-> <<>>, release |-> <<>>,
            candidate |-> <<>>]

\* (?P<month>0[1-9]|1[0-2]) at position i
MonthAt(s, i) ==
    /\ i + 1 <= Len(s)
    /\ \/ s[i] = "0" /\ s[i + 1] \in NonZeroDigit
       \/ s[i] = "1" /\ s[i + 1] \in {"0", "1", "2"}

\* (?P<release>0|[1-9]\d*) at position i: the position after it, 0 when it fails
ReleaseEnd(s, i) ==
    IF i > Len(s) THEN 0
    ELSE IF s[i] = "0" THEN i + 1
    ELSE IF s[i] \in NonZeroDigit THEN DigitsEnd(s, i + 1)
    ELSE 0

\* (?:-rc(?P<candidate>[1-9]\d*))? at position i: the position after it, i when
\* the optional group does not match
CandidateEnd(s, i) ==
    IF /\ i + 3 <= Len(s)
       /\ s[i] = "-" /\ s[i + 1] = "r" /\ s[i + 2] = "c"
       /\ s[i + 3] \in NonZeroDigit
    THEN DigitsEnd(s, i + 4)
    ELSE i

\* the pattern matched at position i of s
MatchAt(s, i) ==
    IF /\ i + 6 <= Len(s)
       /\ s[i] \in Digit /\ s[i + 1] \in Digit
       /\ s[i + 2] = "."
       /\ MonthAt(s, i + 3)
       /\ s[i + 5] = "."
       /\ ReleaseEnd(s, i + 6) # 0
    THEN LET re == ReleaseEnd(s, i + 6)
             ce == CandidateEnd(s, re)
         IN  [ok |-> TRUE,
              year |-> SubSeq(s, i, i + 1),
              month |-> SubSeq(s, i + 3, i + 4),
              release |-> SubSeq(s, i + 6, re - 1),
              candidate |-> IF ce = re THEN <<>> ELSE SubSeq(s, re + 3, ce - 1)]
    ELSE NoMatch

\* re.search(pattern, s): the leftmost position where the pattern matches
RECURSIVE SearchFrom(_, _)
SearchFrom(s, i) ==
    IF i > Len(s) THEN NoMatch
    ELSE IF MatchAt(s, i).ok THEN MatchAt(s, i)
    ELSE SearchFrom(s, i + 1)

re_search(s) == SearchFrom(s, 1)

Returned(v) == [exc |-> "none", ret |-> v]

Raised(e) == [exc |-> e, ret |-> 0]

\* the four tiers of compare_version, on two matches
CompareMatches(match1, match2) ==
    IF match1.year # match2.year
    THEN (IF StrGt(match1.year, match2.year) THEN 1 ELSE -1)
    ELSE IF match1.month # match2.month
    THEN (IF StrGt(match1.month, match2.month) THEN 1 ELSE -1)
    ELSE IF match1.release # match2.release
    THEN (IF StrGt(match1.release, match2.release) THEN 1 ELSE -1)
    ELSE IF match1.candidate # match2.candidate
    THEN (IF \/ match1.candidate = <<>>
             \/ (match2.candidate # <<>> /\ StrGt(match1.candidate, match2.candidate))
          THEN 1 ELSE -1)
    ELSE 0

\* compare_version(ver1, ver2): match.group on None raises AttributeError
compare_version(v1, v2) ==
    LET match1 == re_search(v1)
        match2 == re_search(v2)
    IN  IF ~match1.ok \/ ~match2.ok THEN Raised("AttributeError")
        ELSE Returned(CompareMatches(match1, match2))

-----------------------------------------------------------------------------
(* Version strings the comparator is applied to *)

Dot == <<".">>

SNAPSHOT == <<"S", "N", "A", "P", "S", "H", "O", "T">>

Years == {<<"2", "3">>, <<"2", "4">>}

Months == {<<"0", "5">>, <<"1", "0">>}

Releases == {<<"0">>, <<"9">>, <<"1", "0">>}

\* <<>> is a version without a candidate suffix
Candidates == {<<>>, <<"1">>, <<"9">>, <<"1", "0">>}

MkVersion(y, m, r, c) ==
    y \o Dot \o m \o Dot \o r \o (IF c = <<>> THEN <<>> ELSE <<"-", "r", "c">> \o c)

WellFormed == {MkVersion(y, m, r, c) : y \in Years, m \in Months,
                                      r \in Releases, c \in Candidates}

V_24_10_0 == MkVersion(<<"2", "4">>, <<"1", "0">>, <<"0">>, <<>>)

V_24_10_0_rc1 == MkVersion(<<"2", "4">>, <<"1", "0">>, <<"0">>, <<"1">>)

V_23_05_3 == MkVersion(<<"2", "3">>, <<"0", "5">>, <<"3">>, <<>>)

\* strings that do not match the pattern as a whole
Malformed ==
    { <<"x">> \o V_24_10_0,                 \* x24.10.0
      <<"1">> \o V_24_10_0 \o <<"5">>,      \* 124.10.05
      V_24_10_0 \o <<"x">>,                 \* 24.10.0x
      V_24_10_0 \o <<"-", "r", "c", "X">>,  \* 24.10.0-rcX
      V_24_10_0 \o <<"-", "r", "c", "0">>,  \* 24.10.0-rc0
      V_24_10_0_rc1 \o <<"x">>,             \* 24.10.0-rc1x
      <<"2", "4", ".", "1", "3", ".", "0">>,   \* 24.13.0: no such month
      <<"2", "4", ".", "1", "0">>,             \* 24.10
      SNAPSHOT,
      <<>> }

VersionInputs == WellFormed \cup {V_23_05_3} \cup Malformed

-----------------------------------------------------------------------------
(* What the specification of the comparator says, stated without the code *)

AllDigits(s) == \A i \in 1..Len(s) : s[i] \in Digit

\* 0 | [1-9][0-9]*
IsNumber(s) == /\ Len(s) >= 1
               /\ AllDigits(s)
               /\ (s[1] = "0" => Len(s) = 1)

\* s is YY.MM.RELEASE[-rcN] as a whole, with release s[7..k]
ValidWithRelease(s, k) ==
    /\ Len(s) >= 7 /\ k \in 7..Len(s)
    /\ AllDigits(SubSeq(s, 1, 2)) /\ s[3] = "."
    /\ SubSeq(s, 4, 5) \in {<<"0", d>> : d \in NonZeroDigit}
                            \cup {<<"1", "0">>, <<"1", "1">>, <<"1", "2">>}
    /\ s[6] = "."
    /\ IsNumber(SubSeq(s, 7, k))
    /\ \/ k = Len(s)
       \/ /\ Len(s) >= k + 4
          /\ SubSeq(s, k + 1, k + 3) = <<"-", "r", "c">>
          /\ IsNumber(SubSeq(s, k + 4, Len(s)))
          /\ s[k + 4] # "0"

IsValidVersion(s) == \E k \in 7..Len(s) : ValidWithRelease(s, k)

RECURSIVE NumVal(_)
NumVal(s) ==
    IF s = <<>> THEN 0
    ELSE 10 * NumVal(SubSeq(s, 1, Len(s) - 1)) + (CharOrd(s[Len(s)]) - 48)

\* <<year, month, release, final, candidate>> of a valid version, as numbers;
\* final is 1 for a version without a candidate suffix and 0 for a candidate
NumKey(s) ==
    LET k == CHOOSE j \in 7..Len(s) : ValidWithRelease(s, j)
    IN  <<NumVal(SubSeq(s, 1, 2)), NumVal(SubSeq(s, 4, 5)), NumVal(SubSeq(s, 7, k)),
          IF k = Len(s) THEN 1 ELSE 0,
          IF k = Len(s) THEN 0 ELSE NumVal(SubSeq(s, k + 4, Len(s)))>>

RECURSIVE KeyCompare(_, _)
KeyCompare(a, b) ==
    IF a = <<>> THEN 0
    ELSE IF Head(a) > Head(b) THEN 1
    ELSE IF Head(a) < Head(b) THEN -1
    ELSE KeyCompare(Tail(a), Tail(b))

\* the ordering the specification gives to two valid versions
NumericOrder(a, b) == KeyCompare(NumKey(a), NumKey(b))

-----------------------------------------------------------------------------
(* The comparator applied to a pair of strings *)

Idle == [exc |-> "idle", ret |-> 0]

CompareIdle == ver1 = <<>> /\ ver2 = <<>> /\ cmp = Idle

CompareVars == <<ver1, ver2, cmp>>

\* main() not started
MainIdle ==
    /\ version = <<>> /\ entry = "none" /\ pc = "idle" /\ ext = "none"
    /\ parsed = <<>> /\ log = <<>> /\ failures = {}
    /\ patches_left = 0 /\ exit_status = -1

MainVars == <<version, entry, pc, ext, parsed, log, failures, patches_left,
              exit_status>>

NoFile == [exists |-> FALSE, size |-> 0, mtime |-> 0]

\* no file, no remote resource: urldownload is not part of the behaviour
DownloadIdle ==
    /\ file = NoFile
    /\ remote = [has_length |-> FALSE, length |-> 0, has_modified |-> FALSE,
                 modified |-> 0]
    /\ now = 0 /\ buffer_size = 0 /\ calls = <<>>

DownloadVars == <<file, remote, now, buffer_size, calls>>

InitCompare ==
    /\ ver1 \in VersionInputs
    /\ ver2 \in VersionInputs
    /\ cmp = Idle
    /\ MainIdle
    /\ DownloadIdle

CompareVersion ==
    /\ cmp = Idle
    /\ cmp' = compare_version(ver1, ver2)
    /\ UNCHANGED <<ver1, ver2, MainVars, DownloadVars>>

NextCompare == CompareVersion

SpecCompare == InitCompare /\ [][NextCompare]_vars

-----------------------------------------------------------------------------
(* Claims about compare_version *)

BothValid == IsValidVersion(ver1) /\ IsValidVersion(ver2)

\* C5: for every pair of valid version strings compare_version returns the
\* ordering of year, month, release and candidate compared as numbers, a version
\* without a candidate suffix being newer than any candidate of it.
C5_NumericOrdering ==
    (cmp # Idle /\ BothValid) => cmp = Returned(NumericOrder(ver1, ver2))

\* C7: for every string that does not match the pattern as a whole,
\* compare_version fails with an error and returns no ordering.
C7_MalformedFails ==
    (cmp # Idle /\ ~BothValid) => cmp.exc # "none"

-----------------------------------------------------------------------------
(* urldownload *)

\* response.read(1024 * 8)
BlockSize == 8192

\* the buffer of the file object filename.open("wb") returns: the platform's
\* st_blksize or io.DEFAULT_BUFFER_SIZE, depending on the interpreter
BufferSizes == {4096, 8192}

\* body lengths, and the byte counts a transfer may end after
ByteCounts == {0, 500, 1000, 5000, 9000}

\* Last-Modified timestamps a response declares (seconds after the epoch)
ModifiedTimes == {1, 2}

\* the latest time of the clock
MaxTime == 3

\* urldownload calls in one behaviour
MaxCalls == 3

Min(a, b) == IF a < b THEN a ELSE b

\* file.write(block) on the buffered writer holding `fill` unwritten bytes: the
\* unwritten bytes it holds afterwards. A block that fits is kept in the buffer;
\* otherwise the buffer is flushed, a block larger than the buffer is written
\* through and a smaller one is kept.
BufferedWrite(fill, block, bufsize) ==
    IF block <= bufsize - fill THEN fill + block
    ELSE IF block > bufsize THEN 0
    ELSE block

\* while block := response.read(1024 * 8): read += len(block); file.write(block)
\* on a stream that ends after `left` more bytes
RECURSIVE ReadLoop(_, _, _, _)
ReadLoop(left, read, fill, bufsize) ==
    IF left = 0 THEN [read |-> read, fill |-> fill]
    ELSE LET block == Min(BlockSize, left)
         IN  ReadLoop(left - block, read + block,
                      BufferedWrite(fill, block, bufsize), bufsize)

\* size, from the Content-Length header
ExpectedSize(r) == IF r.has_length THEN r.length ELSE -1

\* mtime, from the Last-Modified header
ExpectedMtime(r) == IF r.has_modified THEN r.modified ELSE -1

\* a skip test that compares the size alone
AlreadyDownloaded_SizeOnly(f, size, mtime) ==
    f.exists /\ f.size = size

\* a skip test that compares the modification time alone
AlreadyDownloaded_MtimeOnly(f, size, mtime) ==
    f.exists /\ f.mtime = mtime

\* filename.exists() and stat.st_mtime == mtime and stat.st_size == size
AlreadyDownloaded(f, size, mtime) ==
    f.exists /\ f.mtime = mtime /\ f.size = size

\* a length test that only catches an empty transfer
TooShort_EmptyOnly(size, read) == size > 0 /\ read = 0

\* size >= 0 and read < size
TooShort(size, read) == size >= 0 /\ read < size

\* the file once the inner with block is left: os.utime(filename, (atime, mtime))
\* runs while the file is open, and close() then writes the bytes the buffer
\* still holds, which sets the modification time to the time of that write
ClosedFile(read, fill, mtime, t) ==
    [exists |-> TRUE,
     size |-> read,
     mtime |-> IF fill > 0 THEN t
               ELSE IF mtime # -1 THEN mtime
               ELSE t]

NoError == [exc |-> "none", got |-> 0, out_of |-> 0]

\* urldownload(url) at time t, on local file f and response r whose body stream
\* ends after `delivered` bytes: the record of the call
urldownload(f, r, delivered, t, bufsize) ==
    LET size == ExpectedSize(r)
        mtime == ExpectedMtime(r)
        loop == ReadLoop(delivered, 0, 0, bufsize)
    IN  IF AlreadyDownloaded(f, size, mtime)
        THEN [outcome |-> "skipped", before |-> f, after |-> f,
              delivered |-> 0, read |-> 0, error |-> NoError]
        ELSE [outcome |-> IF TooShort(size, loop.read) THEN "incomplete"
                          ELSE "downloaded",
              before |-> f,
              after |-> ClosedFile(loop.read, loop.fill, mtime, t),
              delivered |-> delivered,
              read |-> loop.read,
              error |-> IF TooShort(size, loop.read)
                        THEN [exc |-> "ContentTooShortError",
                              got |-> loop.read, out_of |-> size]
                        ELSE NoError]

\* the remote resources: the body and the headers the response declares. The
\* length a response declares is the length of the body.
Remotes == [has_length : BOOLEAN, length : ByteCounts,
            has_modified : {FALSE}, modified : {0}]
           \cup [has_length : BOOLEAN, length : ByteCounts,
                 has_modified : {TRUE}, modified : ModifiedTimes]

\* the local file before the first call: none, or any file. Times are seconds
\* at or after the epoch, so no file time equals the -1 that stands for a
\* missing Last-Modified header.
LocalFiles == {NoFile} \cup [exists : {TRUE}, size : ByteCounts, mtime : 0..2]

\* what the body stream of a response for r may end after: the whole body, or
\* less when the connection is cut
Deliveries(r) == {d \in ByteCounts : d <= r.length}

InitDownloadState ==
    /\ file \in LocalFiles
    /\ remote \in Remotes
    /\ buffer_size \in BufferSizes
    /\ now = 2
    /\ calls = <<>>

InitDownload ==
    /\ InitDownloadState
    /\ CompareIdle
    /\ MainIdle

\* one call of urldownload for the url; the remote resource does not change
Urldownload ==
    /\ Len(calls) < MaxCalls
    /\ \E t \in now..MaxTime, delivered \in Deliveries(remote) :
          LET call == urldownload(file, remote, delivered, t, buffer_size)
          IN  /\ file' = call.after
              /\ calls' = Append(calls, call)
              /\ now' = t
    /\ UNCHANGED <<remote, buffer_size, CompareVars, MainVars>>

NextDownload == Urldownload

SpecDownload == InitDownload /\ [][NextDownload]_vars

-----------------------------------------------------------------------------
(* Claims about urldownload *)

Succeeded(c) == c.outcome \in {"skipped", "downloaded"}

\* C1: of two calls for the same url against the unchanged remote resource that
\* both return, the second transfers no body and leaves the local file as it is
\* (stated for responses that declare both Content-Length and Last-Modified,
\* the key of the skip test).
C1_SecondCallSkips ==
    \A i \in 1..(Len(calls) - 1) :
        (/\ remote.has_length /\ remote.has_modified
         /\ Succeeded(calls[i]) /\ Succeeded(calls[i + 1]))
            => /\ calls[i + 1].outcome = "skipped"
               /\ calls[i + 1].after = calls[i].after

\* C2: after every call that returns, the closed local file has the declared
\* Content-Length as its size and the declared Last-Modified as its
\* modification time.
C2_FileMatchesMetadata ==
    \A i \in 1..Len(calls) :
        Succeeded(calls[i])
            => /\ remote.has_length => calls[i].after.size = remote.length
               /\ remote.has_modified => calls[i].after.mtime = remote.modified

\* C3: a body stream that ends after fewer bytes than the declared
\* Content-Length makes the call fail with the download incomplete error, which
\* carries the expected and the received count; the call does not return.
C3_IncompleteFails ==
    \A i \in 1..Len(calls) :
        (/\ remote.has_length
         /\ calls[i].outcome # "skipped"
         /\ calls[i].delivered < remote.length)
            => /\ ~Succeeded(calls[i])
               /\ calls[i].error = [exc |-> "ContentTooShortError",
                                    got |-> calls[i].delivered,
                                    out_of |-> remote.length]

C3_Witness ==
    \E i \in 1..Len(calls) :
        /\ remote.has_length /\ remote.length = 1000
        /\ calls[i].delivered = 500
        /\ calls[i].outcome = "incomplete"

C10_PartialFileNotSkipped ==
    \A i \in 1..(Len(calls) - 1) :
        calls[i].outcome = "incomplete"
            => /\ calls[i + 1].outcome # "skipped"
               /\ calls[i + 1].read = calls[i + 1].delivered

C10_Witness ==
    \E i \in 1..(Len(calls) - 1) :
        /\ calls[i].outcome = "incomplete"
        /\ calls[i].after.mtime = remote.modified /\ remote.has_modified
        /\ calls[i + 1].outcome = "downloaded"

-----------------------------------------------------------------------------
(* main() *)

\* .patch files in patches_dir
MaxPatches == 2

\* --version values of a run: SNAPSHOT, the threshold, an older release and a
\* string the pattern is not found in
MainVersions == {SNAPSHOT, V_24_10_0_rc1, V_23_05_3, <<"2", "4", ".", "1", "0">>}

\* a comparison result that never selects tar.zst for the threshold itself
AtOrAbove_Strict(ret) == ret < 0

\* compare_version("24.10.0-rc1", version) <= 0
AtOrAbove(ret) == ret <= 0

\* ext = "tar.zst" if version == "SNAPSHOT" or
\*       compare_version("24.10.0-rc1", version) <= 0 else "tar.xz"
\* with the versions handed to compare_version; `or` does not evaluate its
\* right operand when the left one is true
SelectedExt(v) ==
    IF v = SNAPSHOT
    THEN [exc |-> "none", ext |-> "tar.zst", parsed |-> <<>>]
    ELSE LET r == compare_version(V_24_10_0_rc1, v)
         IN  [exc |-> r.exc,
              ext |-> IF r.exc # "none" THEN "none"
                      ELSE IF AtOrAbove(r.ret) THEN "tar.zst"
                      ELSE "tar.xz",
              parsed |-> <<v>>]

\* a check that lets every exit status pass
CalledProcessError_Unchecked(rc) == FALSE

\* subprocess.run(..., check=True) raises CalledProcessError on a non-zero exit
CalledProcessError(rc) == rc # 0

MainStart ==
    /\ entry = "none" /\ pc = "start" /\ ext = "none"
    /\ parsed = <<>> /\ log = <<>> /\ failures = {}
    /\ patches_left = 0 /\ exit_status = -1

Init ==
    /\ version \in MainVersions
    /\ MainStart
    /\ InitDownloadState
    /\ CompareIdle

\* python imagebuilder.py: __name__ == "__main__" and sys.exit(main()) is
\* evaluated. The module does not import sys, so looking the name sys up raises
\* NameError before main() is called; the interpreter exits with status 1.
RunAsScript ==
    /\ pc = "start"
    /\ entry' = "script"
    /\ pc' = "exited"
    /\ exit_status' = 1
    /\ UNCHANGED <<version, ext, parsed, log, failures, patches_left,
                   CompareVars, DownloadVars>>

\* the module is imported and main() is called
CallMain ==
    /\ pc = "start"
    /\ entry' = "import"
    /\ pc' = "select_ext"
    /\ UNCHANGED <<version, ext, parsed, log, failures, patches_left, exit_status,
                   CompareVars, DownloadVars>>

SelectExt ==
    /\ pc = "select_ext"
    /\ LET sel == SelectedExt(version)
       IN  /\ ext' = sel.ext
           /\ parsed' = parsed \o sel.parsed
           /\ pc' = IF sel.exc = "none" THEN "download" ELSE "raised"
           /\ failures' = IF sel.exc = "none" THEN failures
                          ELSE failures \cup {"select_ext"}
    /\ UNCHANGED <<version, entry, log, patches_left, exit_status,
                   CompareVars, DownloadVars>>

\* imagebuilder_tar = urldownload(imagebuilder_url)
Download ==
    /\ pc = "download"
    /\ log' = Append(log, "download")
    /\ \E t \in now..MaxTime, delivered \in Deliveries(remote) :
          LET call == urldownload(file, remote, delivered, t, buffer_size)
          IN  /\ file' = call.after
              /\ calls' = Append(calls, call)
              /\ now' = t
              /\ pc' = IF call.outcome = "incomplete" THEN "raised" ELSE "extract"
              /\ failures' = IF call.outcome = "incomplete"
                             THEN failures \cup {"download"} ELSE failures
    /\ UNCHANGED <<version, entry, ext, parsed, patches_left, exit_status,
                   remote, buffer_size, CompareVars>>

\* the stale directory is deleted and the archive extracted; an archive that
\* cannot be read raises. patches_dir.glob("*.patch") then yields the patches.
Extract ==
    /\ pc = "extract"
    /\ log' = Append(log, "extract")
    /\ \E ok \in BOOLEAN, n \in 0..MaxPatches :
          /\ pc' = IF ok THEN "patch" ELSE "raised"
          /\ failures' = IF ok THEN failures ELSE failures \cup {"extract"}
          /\ patches_left' = IF ok THEN n ELSE 0
    /\ UNCHANGED <<version, entry, ext, parsed, exit_status,
                   CompareVars, DownloadVars>>

\* subprocess.run(["patch", "-p0", "-i", patch_file], check=True)
ApplyPatch ==
    /\ pc = "patch" /\ patches_left > 0
    /\ log' = Append(log, "patch")
    /\ patches_left' = patches_left - 1
    /\ \E rc \in {0, 1} :
          /\ pc' = IF CalledProcessError(rc) THEN "raised" ELSE "patch"
          /\ failures' = IF rc # 0 THEN failures \cup {"patch"} ELSE failures
    /\ UNCHANGED <<version, entry, ext, parsed, exit_status,
                   CompareVars, DownloadVars>>

\* for package_file in packages_dir.glob("*.ipk"): shutil.copy2(...)
CopyPackages ==
    /\ pc = "patch" /\ patches_left = 0
    /\ log' = Append(log, "copy")
    /\ pc' = "build"
    /\ UNCHANGED <<version, entry, ext, parsed, failures, patches_left,
                   exit_status, CompareVars, DownloadVars>>

\* subprocess.run(imagebuilder_cmd, check=True)
Build ==
    /\ pc = "build"
    /\ log' = Append(log, "build")
    /\ \E rc \in {0, 1} :
          /\ pc' = IF CalledProcessError(rc) THEN "raised" ELSE "collect"
          /\ failures' = IF rc # 0 THEN failures \cup {"build"} ELSE failures
    /\ UNCHANGED <<version, entry, ext, parsed, patches_left, exit_status,
                   CompareVars, DownloadVars>>

\* the images are copied to bin_dir; return 0
Collect ==
    /\ pc = "collect"
    /\ log' = Append(log, "collect")
    /\ pc' = "returned"
    /\ UNCHANGED <<version, entry, ext, parsed, failures, patches_left,
                   exit_status, CompareVars, DownloadVars>>

\* the caller of main() exits with what main() returned, and with status 1 when
\* an exception left main()
Exit ==
    /\ pc \in {"returned", "raised"}
    /\ exit_status' = IF pc = "returned" THEN 0 ELSE 1
    /\ pc' = "exited"
    /\ UNCHANGED <<version, entry, ext, parsed, log, failures, patches_left,
                   CompareVars, DownloadVars>>

Next ==
    \/ RunAsScript
    \/ CallMain
    \/ SelectExt
    \/ Download
    \/ Extract
    \/ ApplyPatch
    \/ CopyPackages
    \/ Build
    \/ Collect
    \/ Exit

Spec == Init /\ [][Next]_vars

\* the selection of ext alone, for any --version
InitExt ==
    /\ version \in VersionInputs
    /\ entry = "import" /\ pc = "select_ext" /\ ext = "none"
    /\ parsed = <<>> /\ log = <<>> /\ failures = {}
    /\ patches_left = 0 /\ exit_status = -1
    /\ DownloadIdle
    /\ CompareIdle

NextExt == SelectExt

SpecExt == InitExt /\ [][NextExt]_vars

-----------------------------------------------------------------------------
(* Claims about main() *)

\* C6: ext is tar.zst for SNAPSHOT and for every valid version at or above
\* 24.10.0-rc1, tar.xz for every valid version below it, and SNAPSHOT is never
\* handed to compare_version.
C6_ExtensionSelection ==
    pc # "select_ext"
        => /\ version = SNAPSHOT => (ext = "tar.zst" /\ parsed = <<>>)
           /\ IsValidVersion(version)
                 => ext = IF NumericOrder(version, V_24_10_0_rc1) >= 0
                          THEN "tar.zst" ELSE "tar.xz"

C6_Witness ==
    /\ pc = "download"
    /\ version = V_24_10_0_rc1
    /\ ext = "tar.zst"

\* C8: a run ends with a non-zero exit status if a step failed and with exit
\* status zero when no step failed.
C8_ExitContract ==
    pc = "exited" => (exit_status # 0 <=> failures # {})

Rank(step) ==
    CASE step = "download" -> 1 [] step = "extract" -> 2 [] step = "patch" -> 3
      [] step = "copy" -> 4 [] step = "build" -> 5 [] step = "collect" -> 6

\* step b may be the step started next after step a
Follows(a, b) ==
    \/ Rank(b) = Rank(a) + 1
    \/ a = "patch" /\ b = "patch"
    \/ a = "extract" /\ b = "copy"

\* C9: the steps of a run start in the order download, extract, patches,
\* packages, build, collect, and no step is started after a step that failed.
C9_StrictOrder ==
    /\ log # <<>> => log[1] = "download"
    /\ \A i \in 1..(Len(log) - 1) : Follows(log[i], log[i + 1])
    /\ \A s \in failures :
          IF s = "select_ext" THEN log = <<>>
          ELSE log # <<>> /\ log[Len(log)] = s

C9_Witness ==
    /\ pc = "raised"
    /\ failures = {"patch"}
    /\ log = <<"download", "extract", "patch", "patch">>

=============================================================================
